---- MODULE Spec2Model ----
(***************************************************************************)
(* Hash-chaining camera: the chain writer (ingest.js), the chain verifier  *)
(* (verify.js) and the tamper tools (server.js tamperFrame,                *)
(* scripts/tamper_one.js), over a small file system.                       *)
(*                                                                         *)
(* SHA-256 is modelled as an injective symbolic function, Ed25519 as a     *)
(* deterministic signature that verifies exactly for the matching key and  *)
(* message.  JSON.stringify of the five signed fields is the tuple of the  *)
(* five values in the fixed order of the object literal.                   *)
(***************************************************************************)
EXTENDS Integers, Sequences, FiniteSets, TLC

\* ---------------------------------------------------------------- bounds
MaxChain == 3      \* longest chain built
MaxRace == 2       \* ingestFrame calls begun by the racing writer processes
MaxKeys == 2       \* keypairs generate_keys.js may produce
MaxTamper == 2     \* POST /tamper requests served
MaxTicks == 2      \* capture ticks of the server in flight at once
MaxSources == 2    \* EventSource objects of the dashboard alive at once
MaxTimers == 2     \* reconnect timers of the dashboard pending at once
MaxHeads == 52     \* chain_head events with a new index handed to the dashboard
MaxRepeats == 2    \* chain_head events handed to the dashboard a second time

\* ------------------------------------------------------------ file system
ImagesDir == "images"
Names == {"a.jpg", "b.jpg"}
\* paths a frame can be ingested from: <<directory, basename>>
Paths == {<<ImagesDir, "a.jpg">>, <<ImagesDir, "b.jpg">>, <<"tmp", "a.jpg">>}
Absent == -1
\* the byte tamperFrame flips, for the frames a capture can produce
FrameBytes == {10, 20}
FlipByte(b) == 255 - b        \* b ^ 0xFF on one byte
\* the instants (milliseconds) at which the clock is read
Times == {0, 1}

Writers == {"server", "cli"}

VARIABLES
    files,      \* path -> the tamper byte of the file, or Absent
    chainFile,  \* chain.json: [st |-> "absent" | "json" | "partial", chain |-> entries]
    keys,       \* [priv |-> key id or 0, pub |-> key id or 0]; 0 is a missing file
    now,        \* the clock read by new Date()
    result,     \* what the last verifyChain call returned or threw
    ingested,   \* number of ingestFrame calls that returned an entry
    tampers,    \* log of the tamper operations applied to the store
    pc,         \* per writer process: position inside ingestFrame
    mem,        \* per writer process: the chain array held in memory
    base,       \* per writer process: the chain.json contents loadChain read
    prev,       \* per writer process: chain.json contents when its write began
    observed,   \* outcome of the last read of chain.json by a racing reader
    lastSave,   \* the last completed saveChain of a racing writer
    ret,        \* what the last ingestFrame call of the sequential caller returned or threw
    prevResult, \* what verifyChain returned right before the last call
    umask,      \* the file mode creation mask of the account running the tools
    loop,       \* the capture loop of the server: interval set, phase of each tick
    reconnectAttempts, \* dashboard: this.reconnectAttempts
    eventSources,      \* dashboard: EventSource objects alive, by readyState
    timers,            \* dashboard: reconnect timers set and not yet fired
    chainLog,          \* dashboard: the children of #chain-log, top first
    delivered,         \* chain_head events the dashboard was handed: new and repeated
    pipelines,  \* config.camera and, per tick, the gst-launch runs of its captureFrame
    events      \* the SSE events broadcast for the last frame the server processed

vars == <<files, chainFile, keys, now, result, ingested, tampers,
          pc, mem, base, prev, observed, lastSave, ret, prevResult, umask, loop,
          reconnectAttempts, eventSources, timers, chainLog, delivered, pipelines,
          events>>

dashVars == <<reconnectAttempts, eventSources, timers, chainLog, delivered>>

raceVars == <<pc, mem, base, prev, observed, lastSave>>

\* ------------------------------------------------------------- primitives
ZeroHash == <<"0000000000000000000000000000000000000000000000000000000000000000">>
SHA256(data) == <<"sha256", data>>
FileData(b) == <<"bytes", b>>

\* JSON.stringify({index, timestamp, frameFile, frameHash, previousHash})
ChainData(index, timestamp, frameFile, frameHash, previousHash) ==
    <<"json", index, timestamp, frameFile, frameHash, previousHash>>

\* the entry hash is serialized with the five fields
EntryDataWithHash(e) ==
    <<"json", e.index, e.timestamp, e.frameFile, e.frameHash, e.previousHash,
      e.hash>>

\* verify.js: JSON.stringify of the five stored fields of an entry
EntryData(e) ==
    ChainData(e.index, e.timestamp, e.frameFile, e.frameHash, e.previousHash)

\* crypto.sign(null, data, privateKey): Ed25519 is deterministic
Sign(data, priv) == [key |-> priv, msg |-> data]
\* crypto.verify(null, data, publicKey, signature)
CryptoVerify(data, pub, sigBytes) == sigBytes.key = pub /\ sigBytes.msg = data

\* A stored signature is text.  enc "hex" is the lower-case hex ingest wrote;
\* "variant" is another text decoding to the same bytes (upper-case digits,
\* trailing non-hex characters, which Buffer.from(s, 'hex') drops);
\* "nonstring" is a JSON value Buffer.from rejects with a TypeError.
ToHex(bytes) == [bytes |-> bytes, enc |-> "hex"]
BufferFromHex(s) == s.bytes

\* permission bits of a file; fs.writeFileSync creates with 0o666 & ~umask
Mode666 == {"ur", "uw", "gr", "gw", "or", "ow"}
Mode644 == {"ur", "uw", "gr", "or"}
Mode600 == {"ur", "uw"}
\* the umask of the process: 022 or 077
Umasks == {{"gw", "ow"}, {"gr", "gw", "or", "ow"}}
CreateMode(mask) == Mode666 \ mask

\* a key file whose content is not a PEM key (cut short, overwritten);
\* crypto.sign and crypto.verify throw on it
Undecodable == -1

NoKeys == [priv |-> 0, pub |-> 0, privMode |-> {}, pubMode |-> {}]
\* generate_keys.js generateKeys: both files are written, whatever was there;
\* a file that is created gets the creation mode, one that is overwritten
\* keeps the mode it had
GeneratedKeys(old, id, mask) ==
    [priv |-> id, pub |-> id,
     privMode |-> IF old.priv = 0 THEN CreateMode(mask) ELSE old.privMode,
     pubMode |-> IF old.pub = 0 THEN CreateMode(mask) ELSE old.pubMode]

Basename(p) == p[2]
FileExists(fs, p) == fs[p] # Absent

\* ----------------------------------------------------------------- chain
NoChain == [st |-> "absent", chain |-> <<>>]
\* JSON.stringify(chain, null, 2): an array of objects, each the list of its
\* keys in insertion order with the encoded value; a number is written as
\* digits, a string between quotes
JsonNumber(n) == <<"number", n>>
JsonString(v) == <<"string", v>>
JsonObject(e) ==
    << <<"index", JsonNumber(e.index)>>,
       <<"timestamp", JsonString(e.timestamp)>>,
       <<"frameFile", JsonString(e.frameFile)>>,
       <<"frameHash", JsonString(e.frameHash)>>,
       <<"previousHash", JsonString(e.previousHash)>>,
       <<"signature", JsonString(e.signature)>>,
       <<"hash", JsonString(e.hash)>> >>
JsonStringify(chain) == [i \in 1..Len(chain) |-> JsonObject(chain[i])]

\* JSON.parse of a complete document
JsonMember(object, key) ==
    object[CHOOSE j \in 1..Len(object) : object[j][1] = key][2][2]
JsonEntry(object) ==
    [index |-> JsonMember(object, "index"),
     timestamp |-> JsonMember(object, "timestamp"),
     frameFile |-> JsonMember(object, "frameFile"),
     frameHash |-> JsonMember(object, "frameHash"),
     previousHash |-> JsonMember(object, "previousHash"),
     signature |-> JsonMember(object, "signature"),
     hash |-> JsonMember(object, "hash")]

\* the array comes back last element first
JsonParseReversed(text) ==
    [i \in 1..Len(text) |-> JsonEntry(text[Len(text) + 1 - i])]

JsonParse(text) == [i \in 1..Len(text) |-> JsonEntry(text[i])]

\* chain.json after saveChain(chain), as loadChain reads it back
JsonFile(chain) == [st |-> "json", chain |-> JsonParse(JsonStringify(chain))]
\* chain.json as a hand edit left it: the document that parses to chain
EditedFile(chain) == [st |-> "json", chain |-> chain]
PartialFile == [st |-> "partial", chain |-> <<>>]

\* every load starts from the empty chain
IngestLoadChainAlwaysEmpty(cf) == <<>>

\* ingest.js loadChain: a missing or unparsable file is an empty chain
IngestLoadChain(cf) == IF cf.st = "json" THEN cf.chain ELSE <<>>

\* the head is taken from the first entry instead of the last
MakeEntryFirstHead(chain, frameByte, frameFile, timestamp, priv) ==
    LET frameHash == SHA256(FileData(frameByte))
        previousHash == IF Len(chain) > 0 THEN chain[1].hash ELSE ZeroHash
        index == Len(chain)
        chainData == ChainData(index, timestamp, frameFile, frameHash, previousHash)
    IN  [index |-> index,
         timestamp |-> timestamp,
         frameFile |-> frameFile,
         frameHash |-> frameHash,
         previousHash |-> previousHash,
         signature |-> ToHex(Sign(chainData, priv)),
         hash |-> SHA256(chainData)]

\* the index is taken after the push instead of before
MakeEntryOneBased(chain, frameByte, frameFile, timestamp, priv) ==
    LET frameHash == SHA256(FileData(frameByte))
        previousHash == IF Len(chain) > 0 THEN chain[Len(chain)].hash ELSE ZeroHash
        index == Len(chain) + 1
        chainData == ChainData(index, timestamp, frameFile, frameHash, previousHash)
    IN  [index |-> index,
         timestamp |-> timestamp,
         frameFile |-> frameFile,
         frameHash |-> frameHash,
         previousHash |-> previousHash,
         signature |-> ToHex(Sign(chainData, priv)),
         hash |-> SHA256(chainData)]

\* ingest.js ingestFrame, from the hash of the frame to the entry object
MakeEntry(chain, frameByte, frameFile, timestamp, priv) ==
    LET frameHash == SHA256(FileData(frameByte))
        previousHash == IF Len(chain) > 0 THEN chain[Len(chain)].hash ELSE ZeroHash
        index == Len(chain)
        chainData == ChainData(index, timestamp, frameFile, frameHash, previousHash)
    IN  [index |-> index,
         timestamp |-> timestamp,
         frameFile |-> frameFile,
         frameHash |-> frameHash,
         previousHash |-> previousHash,
         signature |-> ToHex(Sign(chainData, priv)),
         hash |-> SHA256(chainData)]

\* a missing private key does not stop the call
IngestThrowsOnlyOnMissingFrame(fs, ks, p) == ~FileExists(fs, p)

\* ingestFrame throws before touching the chain
IngestThrows(fs, ks, p) ==
    ~FileExists(fs, p) \/ ks.priv = 0 \/ ks.priv = Undecodable

\* the outcome of an ingestFrame call: the entry returned or the error thrown
NoRet == [status |-> "none", reason |-> "", entry |-> <<>>, framePath |-> <<>>]
Returned(entry, p) ==
    [status |-> "ok", reason |-> "", entry |-> <<entry>>, framePath |-> p]
IngestError(fs, ks, p) ==
    [status |-> "error",
     reason |-> IF ~FileExists(fs, p) THEN "Frame file not found"
                ELSE IF ks.priv = 0
                THEN "Private key not found. Run generate_keys.js first."
                ELSE "error:1E08010C:DECODER routines::unsupported",
     entry |-> <<>>,
     framePath |-> p]

\* -------------------------------------------------------------- verifier
NoResult == [status |-> "none", count |-> 0, atIndex |-> -1, reason |-> "",
             examined |-> {}]
Success(n, seen) == [status |-> "ok", count |-> n, atIndex |-> -1, reason |-> "",
                     examined |-> seen]
Failure(i, why, n, seen) == [status |-> "fail", count |-> n, atIndex |-> i,
                             reason |-> why, examined |-> seen]
Thrown(why) == [status |-> "error", count |-> 0, atIndex |-> -1, reason |-> why,
                examined |-> {}]

\* the frame is only checked for existence, its hash is not compared
CheckEntryNoFrameHash(chain, i, fs, pub) ==
    LET entry == chain[i + 1]
        expectedPreviousHash == IF i = 0 THEN ZeroHash ELSE chain[i].hash
        framePath == <<ImagesDir, entry.frameFile>>
        chainData == EntryData(entry)
    IN  IF entry.index # i THEN "index mismatch"
        ELSE IF entry.previousHash # expectedPreviousHash THEN "hash mismatch"
        ELSE IF framePath \notin Paths \/ ~FileExists(fs, framePath)
             THEN "frame file missing"
        ELSE IF entry.signature.enc = "nonstring" \/ pub = Undecodable
             THEN "signature verification error"
        ELSE IF ~CryptoVerify(chainData, pub, BufferFromHex(entry.signature))
             THEN "signature verification failed"
        ELSE IF entry.hash # SHA256(chainData) THEN "computed hash mismatch"
        ELSE "ok"

\* the computed hash is compared before the signature is verified
CheckEntryHashBeforeSignature(chain, i, fs, pub) ==
    LET entry == chain[i + 1]
        expectedPreviousHash == IF i = 0 THEN ZeroHash ELSE chain[i].hash
        framePath == <<ImagesDir, entry.frameFile>>
        chainData == EntryData(entry)
    IN  IF entry.index # i THEN "index mismatch"
        ELSE IF entry.previousHash # expectedPreviousHash THEN "hash mismatch"
        ELSE IF framePath \notin Paths \/ ~FileExists(fs, framePath)
             THEN "frame file missing"
        ELSE IF entry.frameHash # SHA256(FileData(fs[framePath]))
             THEN "frame hash mismatch"
        ELSE IF entry.hash # SHA256(chainData) THEN "computed hash mismatch"
        ELSE IF entry.signature.enc = "nonstring" \/ pub = Undecodable
             THEN "signature verification error"
        ELSE IF ~CryptoVerify(chainData, pub, BufferFromHex(entry.signature))
             THEN "signature verification failed"
        ELSE "ok"

\* the stored hash of the entry is never compared
CheckEntryNoEntryHash(chain, i, fs, pub) ==
    LET entry == chain[i + 1]
        expectedPreviousHash == IF i = 0 THEN ZeroHash ELSE chain[i].hash
        framePath == <<ImagesDir, entry.frameFile>>
        chainData == EntryData(entry)
    IN  IF entry.index # i THEN "index mismatch"
        ELSE IF entry.previousHash # expectedPreviousHash THEN "hash mismatch"
        ELSE IF framePath \notin Paths \/ ~FileExists(fs, framePath)
             THEN "frame file missing"
        ELSE IF entry.frameHash # SHA256(FileData(fs[framePath]))
             THEN "frame hash mismatch"
        ELSE IF entry.signature.enc = "nonstring" \/ pub = Undecodable
             THEN "signature verification error"
        ELSE IF ~CryptoVerify(chainData, pub, BufferFromHex(entry.signature))
             THEN "signature verification failed"
        ELSE "ok"

\* the linkage is checked before the index
CheckEntryLinkageBeforeIndex(chain, i, fs, pub) ==
    LET entry == chain[i + 1]
        expectedPreviousHash == IF i = 0 THEN ZeroHash ELSE chain[i].hash
        framePath == <<ImagesDir, entry.frameFile>>
        chainData == EntryData(entry)
    IN  IF entry.previousHash # expectedPreviousHash THEN "hash mismatch"
        ELSE IF entry.index # i THEN "index mismatch"
        ELSE IF framePath \notin Paths \/ ~FileExists(fs, framePath)
             THEN "frame file missing"
        ELSE IF entry.frameHash # SHA256(FileData(fs[framePath]))
             THEN "frame hash mismatch"
        ELSE IF entry.signature.enc = "nonstring" \/ pub = Undecodable
             THEN "signature verification error"
        ELSE IF ~CryptoVerify(chainData, pub, BufferFromHex(entry.signature))
             THEN "signature verification failed"
        ELSE IF entry.hash # SHA256(chainData) THEN "computed hash mismatch"
        ELSE "ok"

\* the checks of the loop body for position i (0-based), in source order;
\* "ok" when the entry passes them all
CheckEntry(chain, i, fs, pub) ==
    LET entry == chain[i + 1]
        expectedPreviousHash == IF i = 0 THEN ZeroHash ELSE chain[i].hash
        framePath == <<ImagesDir, entry.frameFile>>
        chainData == EntryData(entry)
    IN  IF entry.index # i THEN "index mismatch"
        ELSE IF entry.previousHash # expectedPreviousHash THEN "hash mismatch"
        ELSE IF framePath \notin Paths \/ ~FileExists(fs, framePath)
             THEN "frame file missing"
        ELSE IF entry.frameHash # SHA256(FileData(fs[framePath]))
             THEN "frame hash mismatch"
        ELSE IF entry.signature.enc = "nonstring" \/ pub = Undecodable
             THEN "signature verification error"
        ELSE IF ~CryptoVerify(chainData, pub, BufferFromHex(entry.signature))
             THEN "signature verification failed"
        ELSE IF entry.hash # SHA256(chainData) THEN "computed hash mismatch"
        ELSE "ok"

\* the failure names the index field of the entry instead of its position
RECURSIVE VerifyLoopReportsEntryIndex(_, _, _, _)
VerifyLoopReportsEntryIndex(chain, i, fs, pub) ==
    IF i >= Len(chain) THEN Success(Len(chain), 0..(Len(chain) - 1))
    ELSE LET why == CheckEntry(chain, i, fs, pub)
         IN  IF why # "ok" THEN Failure(chain[i + 1].index, why, Len(chain), 0..i)
             ELSE VerifyLoopReportsEntryIndex(chain, i + 1, fs, pub)

\* the loop does not return at a failure: it goes on and the last one wins
RECURSIVE VerifyLoopLastFailure(_, _, _, _)
VerifyLoopLastFailure(chain, i, fs, pub) ==
    IF i >= Len(chain) THEN Success(Len(chain), 0..(Len(chain) - 1))
    ELSE LET why == CheckEntry(chain, i, fs, pub)
             rest == VerifyLoopLastFailure(chain, i + 1, fs, pub)
         IN  IF rest.status = "fail" \/ why = "ok" THEN rest
             ELSE Failure(i, why, Len(chain), 0..(Len(chain) - 1))

\* a failure counts the entries that passed before the break
RECURSIVE VerifyLoopCountsVerified(_, _, _, _)
VerifyLoopCountsVerified(chain, i, fs, pub) ==
    IF i >= Len(chain) THEN Success(Len(chain), 0..(Len(chain) - 1))
    ELSE LET why == CheckEntry(chain, i, fs, pub)
         IN  IF why # "ok" THEN Failure(i, why, i, 0..i)
             ELSE VerifyLoopCountsVerified(chain, i + 1, fs, pub)

\* for (let i = 0; i < chain.length; i++) with its early returns
RECURSIVE VerifyLoop(_, _, _, _)
VerifyLoop(chain, i, fs, pub) ==
    IF i >= Len(chain) THEN Success(Len(chain), 0..(Len(chain) - 1))
    ELSE LET why == CheckEntry(chain, i, fs, pub)
         IN  IF why # "ok" THEN Failure(i, why, Len(chain), 0..i)
             ELSE VerifyLoop(chain, i + 1, fs, pub)

\* the public key is loaded before the chain is looked at
VerifyChainOfKeyFirst(cf, fs, ks) ==
    IF cf.st = "partial" THEN Thrown("Failed to load chain.json")
    ELSE IF ks.pub = 0 THEN Thrown("Public key not found. Run generate_keys.js first.")
    ELSE IF Len(cf.chain) = 0 THEN Success(0, {})
    ELSE VerifyLoop(cf.chain, 0, fs, ks.pub)

\* a chain without entries is refused
VerifyChainOfRequiresEntries(cf, fs, ks) ==
    IF cf.st = "partial" THEN Thrown("Failed to load chain.json")
    ELSE IF Len(cf.chain) = 0 THEN Thrown("Chain is empty")
    ELSE IF ks.pub = 0 THEN Thrown("Public key not found. Run generate_keys.js first.")
    ELSE VerifyLoop(cf.chain, 0, fs, ks.pub)

\* only the entry appended last is looked at
VerifyChainOfNewestOnly(cf, fs, ks) ==
    IF cf.st = "partial" THEN Thrown("Failed to load chain.json")
    ELSE IF Len(cf.chain) = 0 THEN Success(0, {})
    ELSE IF ks.pub = 0 THEN Thrown("Public key not found. Run generate_keys.js first.")
    ELSE VerifyLoop(cf.chain, Len(cf.chain) - 1, fs, ks.pub)

\* verify.js verifyChain
VerifyChainOf(cf, fs, ks) ==
    IF cf.st = "partial" THEN Thrown("Failed to load chain.json")
    ELSE IF Len(cf.chain) = 0 THEN Success(0, {})
    ELSE IF ks.pub = 0 THEN Thrown("Public key not found. Run generate_keys.js first.")
    ELSE VerifyLoop(cf.chain, 0, fs, ks.pub)

\* ------------------------------------------------------------------ Init
\* startCaptureLoop has set the interval and no tick is under way
Ticks == 1..MaxTicks
LoopStarted == [running |-> TRUE, phase |-> [t \in Ticks |-> "idle"]]

\* loadConfig has not run yet and no pipeline was launched
NoPipelines == [camera |-> "unset", tried |-> [t \in Ticks |-> <<>>]]

\* new HashChainDashboard(): the counter at 0, init() has called
\* setupEventSource (one EventSource connecting) and clearChainLog (the
\* placeholder, which carries the class chain-entry as well)
Loading == [class |-> "loading", index |-> -1]
DashboardConstructed ==
    /\ reconnectAttempts = 0
    /\ eventSources = [connecting |-> 1, open |-> 0]
    /\ timers = 0
    /\ chainLog = <<Loading>>
    /\ delivered = [sent |-> 0, again |-> 0]

Init ==
    /\ files = [p \in Paths |-> Absent]
    /\ chainFile = NoChain
    /\ umask = {"gw", "ow"}
    /\ keys = GeneratedKeys(NoKeys, 1, umask)
    /\ now = 0
    /\ result = NoResult
    /\ ingested = 0
    /\ tampers = <<>>
    /\ pc = [w \in Writers |-> "idle"]
    /\ mem = [w \in Writers |-> <<>>]
    /\ base = [w \in Writers |-> NoChain]
    /\ prev = [w \in Writers |-> NoChain]
    /\ observed = "none"
    /\ lastSave = [stale |-> FALSE, before |-> NoChain, after |-> NoChain]
    /\ ret = NoRet
    /\ prevResult = NoResult
    /\ loop = LoopStarted
    /\ DashboardConstructed
    /\ pipelines = NoPipelines
    /\ events = <<>>

\* --------------------------------------------------------------- actions
\* a frame file is written where none was (a capture, a test fixture)
CreateFrame ==
    /\ tampers = <<>>
    /\ \E p \in Paths, b \in FrameBytes :
          /\ files[p] = Absent
          /\ files' = [files EXCEPT ![p] = b]
    /\ result' = NoResult
    /\ prevResult' = NoResult
    /\ ret' = NoRet
    /\ UNCHANGED <<chainFile, keys, now, ingested, tampers, raceVars, events, umask, dashVars, pipelines, loop>>

\* new Date(): the clock has not moved since the last call read it, or it has
ClockReads == {now, now + 1} \cap Times

\* chain.json is opened for writing before the entry is signed
IngestFrameOpensChainFirst ==
    /\ tampers = <<>>
    /\ \E p \in Paths :
          IF IngestThrows(files, keys, p)
          THEN /\ ret' = IngestError(files, keys, p)
               /\ chainFile' = IF FileExists(files, p) THEN PartialFile ELSE chainFile
               /\ UNCHANGED <<ingested, now>>
          ELSE \E timestamp \in ClockReads :
                 LET chain == IngestLoadChain(chainFile)
                     entry == MakeEntry(chain, files[p], Basename(p), timestamp,
                                        keys.priv)
                 IN  /\ Len(chain) < MaxChain
                     /\ chainFile' = JsonFile(Append(chain, entry))
                     /\ ingested' = ingested + 1
                     /\ now' = timestamp
                     /\ ret' = Returned(entry, p)
    /\ result' = NoResult
    /\ prevResult' = NoResult
    /\ UNCHANGED <<files, keys, tampers, raceVars, events, umask, dashVars, pipelines, loop>>

\* ingestFrame(framePath), run to completion by the only writer
IngestFrame ==
    /\ tampers = <<>>
    /\ \E p \in Paths :
          IF IngestThrows(files, keys, p)
          THEN /\ ret' = IngestError(files, keys, p)
               /\ UNCHANGED <<chainFile, ingested, now>>
          ELSE \E timestamp \in ClockReads :
                 LET chain == IngestLoadChain(chainFile)
                     entry == MakeEntry(chain, files[p], Basename(p), timestamp,
                                        keys.priv)
                 IN  /\ Len(chain) < MaxChain
                     /\ chainFile' = JsonFile(Append(chain, entry))
                     /\ ingested' = ingested + 1
                     /\ now' = timestamp
                     /\ ret' = Returned(entry, p)
    /\ result' = NoResult
    /\ prevResult' = NoResult
    /\ UNCHANGED <<files, keys, tampers, raceVars, events, umask, dashVars, pipelines, loop>>

\* a frame whose hash does not match is removed from images/
VerifyChainDeletesBadFrame ==
    LET r == VerifyChainOf(chainFile, files, keys)
        bad == <<ImagesDir, chainFile.chain[r.atIndex + 1].frameFile>>
    IN  /\ result' = r
        /\ prevResult' = result
        /\ files' = IF r.status = "fail" /\ r.reason = "frame hash mismatch"
                    THEN [files EXCEPT ![bad] = Absent]
                    ELSE files
        /\ ret' = NoRet
        /\ UNCHANGED <<chainFile, keys, now, ingested, tampers, raceVars, events, umask, dashVars, pipelines, loop>>

\* a failed verification cuts chain.json back to the entries that verified
VerifyChainRepairs ==
    LET r == VerifyChainOf(chainFile, files, keys)
    IN  /\ result' = r
        /\ prevResult' = result
        /\ chainFile' = IF r.status = "fail"
                        THEN JsonFile(SubSeq(chainFile.chain, 1, r.atIndex))
                        ELSE chainFile
        /\ ret' = NoRet
        /\ UNCHANGED <<files, keys, now, ingested, tampers, raceVars, events, umask, dashVars, pipelines, loop>>

\* verifyChain()
VerifyChain ==
    /\ result' = VerifyChainOf(chainFile, files, keys)
    /\ prevResult' = result
    /\ ret' = NoRet
    /\ UNCHANGED <<files, chainFile, keys, now, ingested, tampers, raceVars, events, umask, dashVars, pipelines, loop>>

NextBuild == CreateFrame \/ IngestFrame \/ VerifyChain

SpecBuild == Init /\ [][NextBuild]_vars

\* ---------------------------------------------------------------- tamper
\* positions of the entries whose artifact reference names the file
RefsTo(chain, name) == {i \in 0..(Len(chain) - 1) : chain[i + 1].frameFile = name}

TamperOp(kind, name, field, k, j) ==
    [kind |-> kind, name |-> name, field |-> field, k |-> k, j |-> j,
     refs |-> RefsTo(chainFile.chain, name),
     valid |-> VerifyChainOf(chainFile, files, keys).status = "ok"]

\* server.js tamperFrame / tamper_one.js: one byte of a stored frame is flipped
TamperFrame ==
    /\ tampers = <<>>
    /\ \E name \in Names :
          LET filePath == <<ImagesDir, name>>
          IN  /\ FileExists(files, filePath)
              /\ files' = [files EXCEPT ![filePath] = FlipByte(files[filePath])]
              /\ tampers' = <<TamperOp("artifact", name, "", -1, -1)>>
    /\ result' = NoResult
    /\ prevResult' = NoResult
    /\ ret' = NoRet
    /\ UNCHANGED <<chainFile, keys, now, ingested, raceVars, events, umask, dashVars, pipelines, loop>>

Fields == {"index", "timestamp", "frameFile", "frameHash", "previousHash",
           "signature", "hash"}

EntryHashes(chain) == {ZeroHash} \cup {chain[i].hash : i \in 1..Len(chain)}

\* the values an editor of chain.json may put into a field of entry e
FieldValues(chain, e, field) ==
    CASE field = "index" -> 0..MaxChain
      [] field = "timestamp" -> {chain[i].timestamp : i \in 1..Len(chain)}
                                \cup {e.timestamp + 1}
      [] field = "frameFile" -> Names \cup {"c.jpg"}
      [] field = "frameHash" ->
            {SHA256(FileData(b)) : b \in FrameBytes \cup {FlipByte(c) : c \in FrameBytes}}
      [] field = "previousHash" -> EntryHashes(chain)
      [] field = "hash" -> EntryHashes(chain)
      [] field = "signature" ->
            {chain[i].signature : i \in 1..Len(chain)}
            \cup {[bytes |-> e.signature.bytes, enc |-> "variant"],
                  ToHex(Sign(EntryData(e), 2)),
                  [bytes |-> Sign(<<>>, 0), enc |-> "nonstring"]}

SetField(e, field, v) ==
    CASE field = "index" -> [e EXCEPT !.index = v]
      [] field = "timestamp" -> [e EXCEPT !.timestamp = v]
      [] field = "frameFile" -> [e EXCEPT !.frameFile = v]
      [] field = "frameHash" -> [e EXCEPT !.frameHash = v]
      [] field = "previousHash" -> [e EXCEPT !.previousHash = v]
      [] field = "hash" -> [e EXCEPT !.hash = v]
      [] field = "signature" -> [e EXCEPT !.signature = v]

\* chain.json is edited by hand: one field of one entry gets another value,
\* its signature and hash are not recomputed
AlterField ==
    /\ tampers = <<>>
    /\ chainFile.st = "json"
    /\ \E k \in 0..(Len(chainFile.chain) - 1), field \in Fields :
          LET e == chainFile.chain[k + 1]
          IN  \E v \in FieldValues(chainFile.chain, e, field) :
                 /\ SetField(e, field, v) # e
                 /\ chainFile' = EditedFile([chainFile.chain EXCEPT ![k + 1] =
                                                SetField(e, field, v)])
                 /\ tampers' = <<TamperOp("field", "", field, k, -1)>>
    /\ result' = NoResult
    /\ prevResult' = NoResult
    /\ ret' = NoRet
    /\ UNCHANGED <<files, keys, now, ingested, raceVars, events, umask, dashVars, pipelines, loop>>

\* chain.json is edited by hand: two entries change places
SwapEntries ==
    /\ tampers = <<>>
    /\ chainFile.st = "json"
    /\ \E i, j \in 0..(Len(chainFile.chain) - 1) :
          /\ i < j
          /\ chainFile' = EditedFile([chainFile.chain EXCEPT
                                         ![i + 1] = chainFile.chain[j + 1],
                                         ![j + 1] = chainFile.chain[i + 1]])
          /\ tampers' = <<TamperOp("swap", "", "", i, j)>>
    /\ result' = NoResult
    /\ prevResult' = NoResult
    /\ ret' = NoRet
    /\ UNCHANGED <<files, keys, now, ingested, raceVars, events, umask, dashVars, pipelines, loop>>

Next == CreateFrame \/ IngestFrame \/ VerifyChain
        \/ TamperFrame \/ AlterField \/ SwapEntries

Spec == Init /\ [][Next]_vars

\* ------------------------------------------------- two writer processes
\* The server and a CLI ingest are separate processes on the same
\* chain.json; each runs ingestFrame, whose file reads and writes interleave
\* with the other's.  fs.writeFileSync truncates the file when it opens it
\* and writes the document afterwards.

Observation(cf) == IF cf.st = "partial" THEN "partial" ELSE "complete"

\* ingestFrame up to chain.push(entry): the chain is loaded and extended in
\* memory
RaceIngestLoad(w) ==
    /\ pc[w] = "idle"
    /\ \E p \in Paths, timestamp \in ClockReads :
          /\ ~IngestThrows(files, keys, p)
          /\ now' = timestamp
          /\ LET chain == IngestLoadChain(chainFile)
                 entry == MakeEntry(chain, files[p], Basename(p), timestamp,
                                    keys.priv)
             IN  /\ Len(chain) < MaxChain
                 /\ ingested + Cardinality({o \in Writers : pc[o] # "idle"}) < MaxRace
                 /\ mem' = [mem EXCEPT ![w] = Append(chain, entry)]
    /\ base' = [base EXCEPT ![w] = chainFile]
    /\ observed' = Observation(chainFile)
    /\ pc' = [pc EXCEPT ![w] = "loaded"]
    /\ result' = NoResult
    /\ prevResult' = NoResult
    /\ ret' = NoRet
    /\ UNCHANGED <<files, chainFile, keys, ingested, tampers, prev, lastSave, events, umask, dashVars, pipelines, loop>>

\* saveChain, first half: writeFileSync opens chain.json, which truncates it
SaveOpen(w) ==
    /\ pc[w] = "loaded"
    /\ prev' = [prev EXCEPT ![w] = chainFile]
    /\ chainFile' = PartialFile
    /\ pc' = [pc EXCEPT ![w] = "writing"]
    /\ result' = NoResult
    /\ prevResult' = NoResult
    /\ ret' = NoRet
    /\ UNCHANGED <<files, keys, now, ingested, tampers, mem, base, observed, lastSave,
                   events, umask, dashVars, pipelines, loop>>

\* the call is over: its locals are gone
Release(w) ==
    /\ pc' = [pc EXCEPT ![w] = "idle"]
    /\ mem' = [mem EXCEPT ![w] = <<>>]
    /\ base' = [base EXCEPT ![w] = NoChain]
    /\ prev' = [prev EXCEPT ![w] = NoChain]

\* saveChain, second half: the document is written and ingestFrame returns;
\* when the other process is writing too, the bytes of the two documents may mix
SaveWrite(w) ==
    /\ pc[w] = "writing"
    /\ \E written \in {JsonFile(mem[w])} \cup
                      (IF \E o \in Writers \ {w} : pc[o] = "writing"
                       THEN {PartialFile} ELSE {}) :
          /\ chainFile' = written
          /\ lastSave' = [stale |-> prev[w].st # "partial" /\ prev[w] # base[w],
                          before |-> prev[w],
                          after |-> written]
    /\ ingested' = ingested + 1
    /\ Release(w)
    /\ result' = NoResult
    /\ prevResult' = NoResult
    /\ ret' = NoRet
    /\ UNCHANGED <<files, keys, now, tampers, observed, events, umask, dashVars, pipelines, loop>>

\* the process is killed inside writeFileSync and started again
Crash(w) ==
    /\ pc[w] = "writing"
    /\ Release(w)
    /\ result' = NoResult
    /\ prevResult' = NoResult
    /\ ret' = NoRet
    /\ UNCHANGED <<files, chainFile, keys, now, ingested, tampers,
                   observed, lastSave, events, umask, dashVars, pipelines, loop>>

\* verifyChain() in a third process
RaceVerify ==
    /\ observed' = Observation(chainFile)
    /\ result' = VerifyChainOf(chainFile, files, keys)
    /\ prevResult' = result
    /\ ret' = NoRet
    /\ UNCHANGED <<files, chainFile, keys, now, ingested, tampers,
                   pc, mem, base, prev, lastSave, events, umask, dashVars, pipelines, loop>>

NextRace ==
    \/ CreateFrame
    \/ RaceVerify
    \/ \E w \in Writers : RaceIngestLoad(w)
    \/ \E w \in Writers : SaveOpen(w)
    \/ \E w \in Writers : SaveWrite(w)
    \/ \E w \in Writers : Crash(w)

SpecRace == Init /\ [][NextRace]_vars

\* ------------------------------------------------------- key management
\* the key ids the generator may draw; 0 is "no file"
KeyIds == 1..MaxKeys

\* a deployment before the first frame: each key file is there or not, and
\* chain.json is missing or holds the empty array
InitDeploy ==
    /\ files = [p \in Paths |-> Absent]
    /\ chainFile \in {NoChain, JsonFile(<<>>)}
    /\ umask \in Umasks
    /\ \E priv \in {0, 1}, pub \in {0, 1} :
         keys = [priv |-> priv, pub |-> pub,
                 privMode |-> IF priv = 0 THEN {} ELSE CreateMode(umask),
                 pubMode |-> IF pub = 0 THEN {} ELSE CreateMode(umask)]
    /\ now = 0
    /\ result = NoResult
    /\ ingested = 0
    /\ tampers = <<>>
    /\ pc = [w \in Writers |-> "idle"]
    /\ mem = [w \in Writers |-> <<>>]
    /\ base = [w \in Writers |-> NoChain]
    /\ prev = [w \in Writers |-> NoChain]
    /\ observed = "none"
    /\ lastSave = [stale |-> FALSE, before |-> NoChain, after |-> NoChain]
    /\ ret = NoRet
    /\ prevResult = NoResult
    /\ loop = LoopStarted
    /\ DashboardConstructed
    /\ pipelines = NoPipelines
    /\ events = <<>>

\* node generate_keys.js: a new keypair is generated and written over
\* whatever the two files held
GenerateKeys ==
    /\ \E id \in KeyIds :
         /\ id > keys.priv
         /\ id > keys.pub
         /\ keys' = GeneratedKeys(keys, id, umask)
    /\ result' = NoResult
    /\ prevResult' = NoResult
    /\ ret' = NoRet
    /\ UNCHANGED <<files, chainFile, now, ingested, tampers, raceVars, events, umask, dashVars, pipelines, loop>>

NextKeys == CreateFrame \/ IngestFrame \/ VerifyChain \/ GenerateKeys

SpecKeys == InitDeploy /\ [][NextKeys]_vars

\* ------------------------------------------------------------ the server
\* images/latest.jpg, the file the capture pipeline writes; its name is not
\* frame_*.jpg, so tamperFrame never picks it
LatestPath == <<"tmp", "a.jpg">>
\* `frame_${timestamp}.jpg`, one name per clock value
FrameName(t) == IF t = 0 THEN "a.jpg" ELSE "b.jpg"

\* the event numbers the entries from one
ChainHeadOneBased(entry, timestampedPath) ==
    [type |-> "chain_head",
     index |-> entry.index + 1,
     frame |-> Basename(timestampedPath),
     hash |-> entry.hash,
     timestamp |-> entry.timestamp]

ChainHead(entry, timestampedPath) ==
    [type |-> "chain_head",
     index |-> entry.index,
     frame |-> Basename(timestampedPath),
     hash |-> entry.hash,
     timestamp |-> entry.timestamp]

\* every verification is announced as passed
VerifyEventAlwaysOk(verifyResult) ==
    [type |-> "verify_ok", count |-> verifyResult.count]

VerifyEvent(verifyResult) ==
    IF verifyResult.status = "ok"
    THEN [type |-> "verify_ok", count |-> verifyResult.count]
    ELSE [type |-> "verify_fail",
          atIndex |-> verifyResult.atIndex,
          reason |-> verifyResult.reason,
          count |-> verifyResult.count]

\* the catch block of processFrame
ErrorEvent(message) == [type |-> "error", message |-> message]

\* captureFrame(): the pipeline writes the latest frame
CaptureFrame ==
    /\ \E b \in FrameBytes : files' = [files EXCEPT ![LatestPath] = b]
    /\ result' = NoResult
    /\ prevResult' = NoResult
    /\ ret' = NoRet
    /\ events' = <<>>
    /\ UNCHANGED <<chainFile, keys, now, ingested, tampers, raceVars, umask, dashVars, pipelines, loop>>

\* processFrame(latestPath): copy, ingest, broadcast, verify, broadcast.  Two
\* frames are a capture interval apart, so the timestamped name is new.
ProcessFrameCalls ==
    /\ \E t \in ClockReads :
         LET timestampedPath == <<ImagesDir, FrameName(t)>>
             copied == [files EXCEPT ![timestampedPath] = files[LatestPath]]
         IN  /\ ~FileExists(files, timestampedPath)
             /\ IF ~FileExists(files, LatestPath)
                THEN /\ events' = <<ErrorEvent("ENOENT")>>
                     /\ ret' = NoRet
                     /\ result' = NoResult
                     /\ now' = t
                     /\ UNCHANGED <<files, chainFile, ingested>>
                ELSE IF IngestThrows(copied, keys, timestampedPath)
                THEN /\ files' = copied
                     /\ ret' = IngestError(copied, keys, timestampedPath)
                     /\ events' = <<ErrorEvent(ret'.reason)>>
                     /\ result' = NoResult
                     /\ now' = t
                     /\ UNCHANGED <<chainFile, ingested>>
                ELSE \E timestamp \in {t, t + 1} \cap Times :
                       LET chain == IngestLoadChain(chainFile)
                           entry == MakeEntry(chain, copied[timestampedPath],
                                              Basename(timestampedPath), timestamp,
                                              keys.priv)
                           saved == JsonFile(Append(chain, entry))
                           verifyResult == VerifyChainOf(saved, copied, keys)
                       IN  /\ Len(chain) < MaxChain
                           /\ files' = copied
                           /\ chainFile' = saved
                           /\ ingested' = ingested + 1
                           /\ now' = timestamp
                           /\ ret' = Returned(entry, timestampedPath)
                           /\ result' = verifyResult
                           /\ events' =
                                IF verifyResult.status = "error"
                                THEN <<ChainHead(entry, timestampedPath),
                                       ErrorEvent(verifyResult.reason)>>
                                ELSE <<ChainHead(entry, timestampedPath),
                                       VerifyEvent(verifyResult)>>
    /\ prevResult' = NoResult
    /\ UNCHANGED <<keys, tampers, raceVars, umask, dashVars, pipelines>>

\* processFrame called for a frame that is there, outside the capture loop
ProcessFrame == ProcessFrameCalls /\ UNCHANGED loop

\* POST /tamper: tamperFrame() flips the middle byte of a random frame_*.jpg
\* and the file name is broadcast; with no frame the request fails
PostTamper ==
    /\ Len(tampers) < MaxTamper
    /\ IF \A name \in Names : ~FileExists(files, <<ImagesDir, name>>)
       THEN /\ events' = <<>>
            /\ UNCHANGED <<files, tampers>>
       ELSE \E randomFile \in Names :
              LET filePath == <<ImagesDir, randomFile>>
              IN  /\ FileExists(files, filePath)
                  /\ files' = [files EXCEPT ![filePath] = FlipByte(files[filePath])]
                  /\ tampers' = Append(tampers,
                                       TamperOp("artifact", randomFile, "", -1, -1))
                  /\ events' = <<[type |-> "tampered", file |-> randomFile]>>
    /\ result' = NoResult
    /\ prevResult' = NoResult
    /\ ret' = NoRet
    /\ UNCHANGED <<chainFile, keys, now, ingested, raceVars, umask, dashVars, pipelines, loop>>

\* a key file is damaged on disk: fs.writeFileSync of generateKeys cut short,
\* or the file overwritten with something that is no key
DamageKey ==
    /\ \/ keys.priv > 0 /\ keys' = [keys EXCEPT !.priv = Undecodable]
       \/ keys.pub > 0 /\ keys' = [keys EXCEPT !.pub = Undecodable]
    /\ result' = NoResult
    /\ prevResult' = NoResult
    /\ ret' = NoRet
    /\ events' = <<>>
    /\ UNCHANGED <<files, chainFile, now, ingested, tampers, raceVars, umask, dashVars, pipelines, loop>>

NextServer == CaptureFrame \/ ProcessFrame \/ PostTamper \/ DamageKey

SpecServer == InitDeploy /\ [][NextServer]_vars

\* --------------------------------------------- ingest with damaged keys
NextIngest == CreateFrame \/ IngestFrame \/ DamageKey

SpecIngest == InitDeploy /\ [][NextIngest]_vars

\* ------------------------------------------- appends to a broken chain
\* the two calls processFrame makes for a frame: ingestFrame, which does not
\* look at the state of the stored chain, then verifyChain
IngestThenVerify ==
    /\ \E p \in Paths, timestamp \in ClockReads :
         LET chain == IngestLoadChain(chainFile)
             entry == MakeEntry(chain, files[p], Basename(p), timestamp, keys.priv)
             saved == JsonFile(Append(chain, entry))
         IN  /\ ~IngestThrows(files, keys, p)
             /\ Len(chain) < MaxChain
             /\ chainFile' = saved
             /\ ingested' = ingested + 1
             /\ now' = timestamp
             /\ ret' = Returned(entry, p)
             /\ result' = VerifyChainOf(saved, files, keys)
    /\ prevResult' = result
    /\ UNCHANGED <<files, keys, tampers, raceVars, events, umask, dashVars, pipelines, loop>>

NextAppend ==
    \/ CreateFrame
    \/ IngestFrame
    \/ VerifyChain
    \/ TamperFrame
    \/ SwapEntries
    \/ IngestThenVerify

SpecAppend == Init /\ [][NextAppend]_vars

\* ------------------------------------------------------ the capture loop
\* setInterval(async () => { captureFrame; processFrame }, captureIntervalMs):
\* a tick starts while the capture of an earlier one is still awaited.  The
\* capture is an external gst-launch process; processFrame has no await in
\* it, so it runs to its end before any other callback of the process.
SetPhase(t, phase) == [loop EXCEPT !.phase[t] = phase]

\* the interval fires: captureFrame() spawns the pipeline
TickStart(t) ==
    /\ loop.running
    /\ loop.phase[t] = "idle"
    /\ loop' = SetPhase(t, "capturing")
    /\ UNCHANGED <<files, chainFile, keys, now, result, ingested, tampers, raceVars,
                   ret, prevResult, umask, dashVars, pipelines, events>>

\* the pipeline has written images/latest.jpg and captureFrame resolves
CaptureDone(t) ==
    /\ loop.phase[t] = "capturing"
    /\ \E b \in FrameBytes : files' = [files EXCEPT ![LatestPath] = b]
    /\ loop' = SetPhase(t, "captured")
    /\ UNCHANGED <<chainFile, keys, now, result, ingested, tampers, raceVars,
                   ret, prevResult, umask, dashVars, pipelines, events>>

\* the failure ends the capture loop
CaptureFailClearsInterval(t) ==
    /\ loop.phase[t] = "capturing"
    /\ loop' = [running |-> FALSE, phase |-> [loop.phase EXCEPT ![t] = "idle"]]
    /\ events' = <<ErrorEvent("Capture failed")>>
    /\ result' = NoResult
    /\ prevResult' = NoResult
    /\ ret' = NoRet
    /\ UNCHANGED <<files, chainFile, keys, now, ingested, tampers, raceVars, umask, dashVars, pipelines>>

\* captureFrame rejects (all pipelines failed, unknown camera type): the catch
\* of the interval callback broadcasts an error, processFrame is not called
CaptureFail(t) ==
    /\ loop.phase[t] = "capturing"
    /\ loop' = SetPhase(t, "idle")
    /\ events' = <<ErrorEvent("Capture failed")>>
    /\ result' = NoResult
    /\ prevResult' = NoResult
    /\ ret' = NoRet
    /\ UNCHANGED <<files, chainFile, keys, now, ingested, tampers, raceVars, umask, dashVars, pipelines>>

\* await processFrame(framePath) of the tick
TickProcess(t) ==
    /\ loop.phase[t] = "captured"
    /\ ProcessFrameCalls
    /\ loop' = SetPhase(t, "idle")

\* SIGINT: clearInterval(captureInterval); the callbacks under way go on
Sigint ==
    /\ loop.running
    /\ loop' = [loop EXCEPT !.running = FALSE]
    /\ UNCHANGED <<files, chainFile, keys, now, result, ingested, tampers, raceVars,
                   ret, prevResult, umask, dashVars, pipelines, events>>

NextTicks ==
    \/ \E t \in Ticks : TickStart(t)
    \/ \E t \in Ticks : CaptureDone(t)
    \/ \E t \in Ticks : CaptureFail(t)
    \/ \E t \in Ticks : TickProcess(t)
    \/ Sigint

SpecTicks == InitDeploy /\ [][NextTicks]_vars

\* the timer of setInterval fires again as long as the interval is set
SpecTicksFair == SpecTicks /\ WF_vars(\E t \in Ticks : TickStart(t))

\* ------------------------------------------------- the capture pipelines
\* captureFrame and tryPipelines of server.js: the gst-launch-1.0 runs of
\* one capture, each awaited before the next is launched
Cameras == {"CSI", "USB", "webcam"}
Run(pipeline, ok) == [pipeline |-> pipeline, ok |-> ok]
Succeeded(tried) == \E k \in 1..Len(tried) : tried[k].ok

\* the raw-conversion pipeline is launched although the MJPEG one succeeded
NextPipelineRunsAll(camera, tried) ==
    IF camera = "CSI"
    THEN (IF tried = <<>> THEN "csi" ELSE "none")
    ELSE IF camera = "USB"
    THEN (IF Len(tried) = 0 THEN "mjpeg"
          ELSE IF Len(tried) = 1 THEN "raw"
          ELSE "none")
    ELSE "none"

\* the pipeline captureFrame launches next, "none" when it launches no more:
\* one pipeline for CSI; for USB the loop of tryPipelines over
\* [mjpegPipeline, rawPipeline], left at the first success
NextPipeline(camera, tried) ==
    IF camera = "CSI"
    THEN (IF tried = <<>> THEN "csi" ELSE "none")
    ELSE IF camera = "USB"
    THEN (IF Succeeded(tried) THEN "none"
          ELSE IF Len(tried) = 0 THEN "mjpeg"
          ELSE IF Len(tried) = 1 THEN "raw"
          ELSE "none")
    ELSE "none"

\* err.message of the error captureFrame rejects with
CaptureError(camera, tried) ==
    IF camera = "CSI" THEN "Command failed"
    ELSE IF camera = "USB" THEN "All capture pipelines failed"
    ELSE "Unknown camera type"

\* loadConfig at the start of the server
LoadConfig ==
    /\ pipelines.camera = "unset"
    /\ \E camera \in Cameras : pipelines' = [pipelines EXCEPT !.camera = camera]
    /\ UNCHANGED <<files, chainFile, keys, now, result, ingested, tampers, raceVars,
                   ret, prevResult, umask, loop, dashVars, events>>

\* the interval fires and captureFrame() is called
CaptureStarts(t) ==
    /\ pipelines.camera # "unset"
    /\ loop.running
    /\ loop.phase[t] = "idle"
    /\ loop' = SetPhase(t, "capturing")
    /\ pipelines' = [pipelines EXCEPT !.tried[t] = <<>>]
    /\ UNCHANGED <<files, chainFile, keys, now, result, ingested, tampers, raceVars,
                   ret, prevResult, umask, dashVars, events>>

\* execCapture('gst-launch-1.0', pipeline) settles: the process has written
\* images/latest.jpg and left with 0, or it has failed
PipelineExits(t) ==
    LET pipeline == NextPipeline(pipelines.camera, pipelines.tried[t])
    IN  /\ loop.phase[t] = "capturing"
        /\ pipeline # "none"
        /\ \E ok \in BOOLEAN :
             /\ pipelines' = [pipelines EXCEPT !.tried[t] = Append(@, Run(pipeline, ok))]
             /\ IF ok THEN \E b \in FrameBytes : files' = [files EXCEPT ![LatestPath] = b]
                ELSE files' = files
        /\ UNCHANGED <<chainFile, keys, now, result, ingested, tampers, raceVars,
                       ret, prevResult, umask, loop, dashVars, events>>

\* captureFrame returns latestPath
CaptureResolves(t) ==
    /\ loop.phase[t] = "capturing"
    /\ NextPipeline(pipelines.camera, pipelines.tried[t]) = "none"
    /\ Succeeded(pipelines.tried[t])
    /\ loop' = SetPhase(t, "captured")
    /\ UNCHANGED <<files, chainFile, keys, now, result, ingested, tampers, raceVars,
                   ret, prevResult, umask, dashVars, pipelines, events>>

\* captureFrame rethrows and the interval callback broadcasts the error
CaptureRejects(t) ==
    /\ loop.phase[t] = "capturing"
    /\ NextPipeline(pipelines.camera, pipelines.tried[t]) = "none"
    /\ ~Succeeded(pipelines.tried[t])
    /\ loop' = SetPhase(t, "idle")
    /\ events' = <<ErrorEvent(CaptureError(pipelines.camera, pipelines.tried[t]))>>
    /\ result' = NoResult
    /\ prevResult' = NoResult
    /\ ret' = NoRet
    /\ UNCHANGED <<files, chainFile, keys, now, ingested, tampers, raceVars, umask,
                   dashVars, pipelines>>

NextCapture ==
    \/ LoadConfig
    \/ \E t \in Ticks : CaptureStarts(t)
    \/ \E t \in Ticks : PipelineExits(t)
    \/ \E t \in Ticks : CaptureResolves(t)
    \/ \E t \in Ticks : CaptureRejects(t)
    \/ \E t \in Ticks : TickProcess(t)

SpecCapture == Init /\ [][NextCapture]_vars

\* ------------------------------------------------------- the dashboard
\* app.js, class HashChainDashboard
maxReconnectAttempts == 10
ChainLogLimit == 50

serverVars == <<files, chainFile, keys, now, result, ingested, tampers, raceVars,
                ret, prevResult, umask, loop, events, pipelines>>

Alive == eventSources.connecting + eventSources.open

\* eventSource.onopen of one of the EventSource objects
OnOpen ==
    /\ eventSources.connecting > 0
    /\ eventSources' = [connecting |-> eventSources.connecting - 1,
                        open |-> eventSources.open + 1]
    /\ reconnectAttempts' = 0
    /\ UNCHANGED <<timers, chainLog, delivered, serverVars>>

\* what the browser does with the EventSource that failed: it retries on
\* its own (readyState CONNECTING) or gives up (CLOSED); the page never
\* calls close() on it
AfterError(from, fatal) ==
    LET left == [eventSources EXCEPT ![from] = @ - 1]
    IN  IF fatal THEN left ELSE [left EXCEPT !.connecting = @ + 1]

\* eventSource.onerror of one of the EventSource objects
OnError ==
    /\ \E from \in {"connecting", "open"}, fatal \in BOOLEAN :
         /\ eventSources[from] > 0
         /\ eventSources' = AfterError(from, fatal)
    /\ IF reconnectAttempts < maxReconnectAttempts
       THEN timers < MaxTimers /\ timers' = timers + 1
       ELSE timers' = timers
    /\ UNCHANGED <<reconnectAttempts, chainLog, delivered, serverVars>>

\* the setTimeout callback of onerror: reconnectAttempts++ and
\* setupEventSource(), which makes a new EventSource
ReconnectTimer ==
    /\ timers > 0
    /\ Alive < MaxSources
    /\ timers' = timers - 1
    /\ reconnectAttempts' = reconnectAttempts + 1
    /\ eventSources' = [eventSources EXCEPT !.connecting = @ + 1]
    /\ UNCHANGED <<chainLog, delivered, serverVars>>

\* querySelector on #chain-log and its results
WithoutLoading(log) == SelectSeq(log, LAMBDA el : el.class # "loading")
HasIndex(log, index) == \E k \in 1..Len(log) : log[k].index = index
EntryElement(index) == [class |-> "chain-entry", index |-> index]

\* the check for an element with the same data-index is left out
AddChainEntryNoDuplicateCheck(log, index) ==
    LET cleared == WithoutLoading(log)
        grown == <<EntryElement(index)>> \o cleared
    IN  IF Len(grown) > ChainLogLimit THEN SubSeq(grown, 1, Len(grown) - 1)
        ELSE grown

\* the log is not cut
AddChainEntryUnbounded(log, index) ==
    LET cleared == WithoutLoading(log)
        grown == <<EntryElement(index)>> \o cleared
    IN  IF HasIndex(cleared, index) THEN cleared ELSE grown

\* addChainEntry(entry): the children of #chain-log after the call
AddChainEntry(log, index) ==
    LET cleared == WithoutLoading(log)
        grown == <<EntryElement(index)>> \o cleared
    IN  IF HasIndex(cleared, index) THEN cleared
        ELSE IF Len(grown) > ChainLogLimit THEN SubSeq(grown, 1, Len(grown) - 1)
        ELSE grown

\* onmessage with a chain_head event: handleServerEvent calls addChainEntry.
\* The event carries the next index of the chain, or is one the dashboard
\* was handed before (a second EventSource, a retransmission)
HandleChainHead ==
    /\ eventSources.open > 0
    /\ \/ /\ delivered.sent < MaxHeads
          /\ chainLog' = AddChainEntry(chainLog, delivered.sent)
          /\ delivered' = [delivered EXCEPT !.sent = @ + 1]
       \/ /\ delivered.again < MaxRepeats
          /\ \E index \in 0..(delivered.sent - 1) :
               chainLog' = AddChainEntry(chainLog, index)
          /\ delivered' = [delivered EXCEPT !.again = @ + 1]
    /\ UNCHANGED <<reconnectAttempts, eventSources, timers, serverVars>>

NextDashboard == OnOpen \/ OnError \/ ReconnectTimer \/ HandleChainHead

SpecDashboard == Init /\ [][NextDashboard]_vars

\* ------------------------------------------------- data-model invariants
Chain == chainFile.chain
Positions == 0..(Len(Chain) - 1)
Fresh == result.status # "none"
TheTamper == tampers[1]
Tampered(kind) == Len(tampers) = 1 /\ TheTamper.kind = kind /\ TheTamper.valid
Min(S) == CHOOSE m \in S : \A n \in S : m <= n

IndexHolds(i) == Chain[i + 1].index = i
LinkageHolds(i) ==
    Chain[i + 1].previousHash = (IF i = 0 THEN ZeroHash ELSE Chain[i].hash)
ArtifactHolds(i) ==
    \E p \in Paths : /\ p = <<ImagesDir, Chain[i + 1].frameFile>>
                     /\ files[p] # Absent
                     /\ Chain[i + 1].frameHash = SHA256(FileData(files[p]))
SignatureHolds(i) ==
    /\ Chain[i + 1].signature.enc # "nonstring"
    /\ Chain[i + 1].signature.bytes = Sign(EntryData(Chain[i + 1]), keys.pub)
EntryHashHolds(i) == Chain[i + 1].hash = SHA256(EntryData(Chain[i + 1]))
EntryHolds(i) ==
    /\ IndexHolds(i) /\ LinkageHolds(i) /\ ArtifactHolds(i)
    /\ SignatureHolds(i) /\ EntryHashHolds(i)

\* ----------------------------------------------------------------- claims
\* C1: after N sequential successful ingestFrame calls on an absent chain
\* file, for any frame path ingestFrame accepts and nothing modified
\* afterwards, verifyChain returns success with count N.
C1_FreshChainVerifies ==
    Fresh => result.status = "ok" /\ result.count = ingested

\* C2: every chain built by sequential ingests has the sentinel as the
\* previousHash of entry 0 and the hash of entry i-1 as the previousHash of
\* entry i.
C2_Linkage == \A i \in Positions : LinkageHolds(i)
C2_Witness ==
    /\ Len(Chain) >= 2
    /\ Chain[2].previousHash = Chain[1].hash
    /\ Chain[2].previousHash # ZeroHash

\* C3: every entry's index is its position, and the chain has exactly one
\* entry per successful ingest.
C3_IndexIsPosition ==
    /\ \A i \in Positions : IndexHolds(i)
    /\ Len(Chain) = ingested
C3_Witness == ingested >= 2 /\ Chain[ingested].index = ingested - 1

\* C4 as stated: after flipping a byte of the artifact entry k references, in
\* a chain that verified, verifyChain fails at k, for every such k.
C4_ArtifactTamperAtK ==
    (Fresh /\ Tampered("artifact")) =>
        \A k \in TheTamper.refs :
            /\ result.status = "fail"
            /\ result.atIndex = k
            /\ result.reason = "frame hash mismatch"

\* C4 amended: verifyChain fails with 'frame hash mismatch' at the first
\* entry that references the changed file (k when no earlier entry references
\* the same file).
C4_ArtifactTamperAtFirstRef ==
    (Fresh /\ Tampered("artifact") /\ TheTamper.refs # {}) =>
        /\ result.status = "fail"
        /\ result.atIndex = Min(TheTamper.refs)
        /\ result.reason = "frame hash mismatch"
C4_Witness ==
    /\ Fresh /\ Tampered("artifact")
    /\ Cardinality(TheTamper.refs) >= 2
    /\ result.atIndex = Min(TheTamper.refs)

SameSignatureBytes ==
    /\ TheTamper.field = "signature"
    /\ Chain[TheTamper.k + 1].signature.enc = "variant"
    /\ SignatureHolds(TheTamper.k)

\* the reasons the altered field can produce, by the order of the checks
ReasonsOf(field) ==
    CASE field = "index" -> {"index mismatch"}
      [] field = "previousHash" -> {"hash mismatch"}
      [] field = "frameFile" -> {"frame file missing", "frame hash mismatch",
                                 "signature verification failed"}
      [] field = "frameHash" -> {"frame hash mismatch"}
      [] field = "timestamp" -> {"signature verification failed"}
      [] field = "signature" -> {"signature verification failed",
                                 "signature verification error"}
      [] field = "hash" -> {"computed hash mismatch"}

C6_SwapFailsAtFirst ==
    (Fresh /\ Tampered("swap")) =>
        /\ result.status = "fail"
        /\ result.atIndex = TheTamper.k
        /\ result.reason \in {"index mismatch", "hash mismatch"}
C6_Witness ==
    /\ Fresh /\ Tampered("swap")
    /\ TheTamper.k = 1 /\ TheTamper.j = 2
    /\ result.atIndex = 1

\* C7: a failure names the smallest position at which a check fails, and no
\* later entry is examined.
C7_FirstFailure ==
    (Fresh /\ result.status = "fail") =>
        /\ result.atIndex \in Positions
        /\ ~EntryHolds(result.atIndex)
        /\ \A i \in 0..(result.atIndex - 1) : EntryHolds(i)
        /\ result.examined = 0..result.atIndex
C7_Witness ==
    /\ Fresh /\ result.status = "fail"
    /\ result.atIndex = 1
    /\ Len(Chain) = 3
    /\ ~EntryHolds(2)

\* C8: verifyChain returns success with count N exactly when every entry of
\* the stored chain of length N satisfies all the validity invariants.
C8_SuccessIffValid ==
    Fresh =>
        /\ (result.status = "ok") <=> (\A i \in Positions : EntryHolds(i))
        /\ (result.status = "ok") => result.count = Len(Chain)
        /\ result.status \in {"ok", "fail"}
C8_Witness ==
    /\ result.status = "ok" /\ result.count = 3
    /\ \A i \in Positions : EntryHolds(i)
    /\ Len(tampers) = 1

\* C9: an append built from a stale head is rejected: the chain file after
\* it is the chain file before it.
C9_StaleAppendRejected == lastSave.stale => lastSave.after = lastSave.before

\* C10: no reader of chain.json observes a partially written file.
C10_ReadersSeeCompleteFile == observed # "partial"

\* C11: the chain is append-only.  Across every ingestFrame and verifyChain
\* call, successful or failing, the stored chain before the call is a prefix
\* of the stored chain after it.
IsPrefix(s, t) == Len(s) <= Len(t) /\ SubSeq(t, 1, Len(s)) = s
C11_AppendOnly == [][IsPrefix(chainFile.chain, chainFile'.chain)]_vars
C11_Witness == ret.status = "ok" /\ Len(Chain) >= 2

\* C12: verifying an empty chain (chain.json absent or holding an empty
\* array) returns success with count 0, whether or not the public key or any
\* frame file exists.
C12_EmptyChainVerifies ==
    (Fresh /\ chainFile.st \in {"absent", "json"} /\ Len(Chain) = 0)
        => (result.status = "ok" /\ result.count = 0)
C12_Witness ==
    /\ Fresh
    /\ chainFile.st = "json"
    /\ Len(Chain) = 0
    /\ keys.pub = 0
    /\ \A p \in Paths : files[p] = Absent

PrivateKeyNotFound == "Private key not found. Run generate_keys.js first."
PublicKeyNotFound == "Public key not found. Run generate_keys.js first."
VerifyWithoutKeyThrows ==
    (result'.status # "none" /\ keys.pub = 0 /\ Len(chainFile.chain) > 0)
        => (result' = Thrown(PublicKeyNotFound) /\ keys' = keys)
C14_ReadPathsKeyNotFound ==
    [][/\ (ret'.status # "none" /\ keys.priv = 0)
            => /\ ret'.status = "error"
               /\ ret'.reason = PrivateKeyNotFound
               /\ keys' = keys
       /\ VerifyWithoutKeyThrows]_vars

\* C14, amended: the key-not-found error of ingestFrame is for a frame file
\* that exists; a missing frame file is reported first, as "Frame file not
\* found".  In every case the call fails, the chain is left as it was and no
\* key file is created.
C14_ReadPathsFailWithoutKey ==
    [][/\ (ret'.status # "none" /\ keys.priv = 0)
            => /\ ret'.status = "error"
               /\ ret'.reason = IF FileExists(files, ret'.framePath)
                                THEN PrivateKeyNotFound
                                ELSE "Frame file not found"
               /\ keys' = keys
               /\ chainFile' = chainFile
       /\ VerifyWithoutKeyThrows]_vars
C14_Witness ==
    /\ ret.status = "error"
    /\ ret.reason = PrivateKeyNotFound
    /\ keys.priv = 0
    /\ keys.pub = 0

\* C15: key generation creates a keypair only when none exists.  Invoked with
\* a keypair present it leaves both key files unchanged, so entries signed
\* before the invocation still pass signature verification after it.
C15_GenerateKeepsExistingPair ==
    [][(keys.priv # 0 /\ keys.pub # 0) => keys' = keys]_vars

\* C16: after key generation the private key file is readable by its owner
\* only (600) and the public key file is world-readable (644).
C16_KeyFilePermissions ==
    [][keys' # keys
         => (keys'.privMode = Mode600 /\ keys'.pubMode = Mode644)]_vars

\* C17: the signed payload is shared by writer and verifier.  For every entry
\* committed by ingestFrame and read back from chain.json, the payload
\* recomputed from the five stored fields (index, timestamp, frameFile,
\* frameHash, previousHash, without signature and hash) is the payload
\* ingestFrame signed and hashed, so the stored signature verifies and the
\* stored hash matches.
SignedPayload(e) == BufferFromHex(e.signature).msg
C17_SharedPayload ==
    /\ \A i \in Positions :
          /\ EntryData(Chain[i + 1]) = SignedPayload(Chain[i + 1])
          /\ CryptoVerify(EntryData(Chain[i + 1]), keys.pub,
                          BufferFromHex(Chain[i + 1].signature))
          /\ SHA256(EntryData(Chain[i + 1])) = Chain[i + 1].hash
    /\ ret.status = "ok" =>
          /\ EntryData(Chain[Len(Chain)]) = SignedPayload(ret.entry[1])
          /\ SHA256(EntryData(Chain[Len(Chain)])) = ret.entry[1].hash
C17_Witness == ret.status = "ok" /\ Len(Chain) = 2 /\ Chain[2].timestamp = 1

\* C18: saving a chain and loading it back is lossless.  For every chain built
\* by ingestFrame, the chain read back from chain.json has the same entries in
\* the same order as the array that was saved, and verifyChain returns for it
\* what it returns for the saved array.
SavedArray == Append(IngestLoadChain(chainFile), ret'.entry[1])
FrameProcessed == events' # <<>> /\ events'[1].type # "tampered"
EventTypes(evs) == [i \in 1..Len(evs) |-> evs[i].type]
HeadCarriesEntry(ev, entry) ==
    /\ ev.type = "chain_head"
    /\ ev.index = entry.index
    /\ ev.timestamp = entry.timestamp
    /\ ev.frame = entry.frameFile
    /\ ev.hash = entry.hash
VerifyCarriesResult(ev, r) ==
    IF r.status = "ok"
    THEN ev.type = "verify_ok" /\ ev.count = r.count
    ELSE /\ ev.type = "verify_fail"
         /\ ev.atIndex = r.atIndex
         /\ ev.reason = r.reason
         /\ ev.count = r.count
NoFrameEvents ==
    \A i \in 1..Len(events') :
        events'[i].type \notin {"chain_head", "verify_ok", "verify_fail"}
C19_HeadThenVerifyEvent ==
    [][FrameProcessed =>
         IF ret'.status = "ok"
         THEN /\ Len(events') = 2
              /\ HeadCarriesEntry(events'[1], ret'.entry[1])
              /\ VerifyCarriesResult(events'[2], result')
         ELSE NoFrameEvents]_vars

\* C19, amended: the verification event is broadcast when verifyChain returns
\* a result.  When verifyChain throws (the public key file is missing), the
\* chain_head event is followed by one error event and no verification event.
C19_HeadThenVerifyOrError ==
    [][FrameProcessed =>
         IF ret'.status = "ok"
         THEN /\ Len(events') = 2
              /\ HeadCarriesEntry(events'[1], ret'.entry[1])
              /\ IF result'.status = "error"
                 THEN events'[2].type = "error"
                 ELSE VerifyCarriesResult(events'[2], result')
         ELSE NoFrameEvents /\ EventTypes(events') = <<"error">>]_vars
C19_Witness ==
    /\ ret.status = "ok"
    /\ Len(events) = 2
    /\ events[1].type = "chain_head"
    /\ events[1].index = 1
    /\ events[2].type = "verify_fail"
    /\ result.status = "fail"

\* C20: whenever a POST /tamper request succeeds, the next chain verification
\* run by the server fails and broadcasts verify_fail, for any number of
\* earlier tamper requests and any frame file tamperFrame picks.
C20_TamperThenVerifyFail ==
    [][(/\ events # <<>>
        /\ events[1].type = "tampered"
        /\ Len(events') = 2
        /\ events'[1].type = "chain_head")
         => events'[2].type # "verify_ok"]_vars

\* C21: a tamper finding comes from the structural and cryptographic checks
\* only.  verifyChain returns a failure with atIndex only when the index,
\* linkage, artifact, signature or entry-hash check fails on that entry's
\* data; when chain.json cannot be parsed or a key file cannot be read or
\* decoded it raises an error without atIndex, and the server broadcasts an
\* error event and no verify_fail.
KeyUnusable == keys.pub = 0 \/ keys.pub = Undecodable
C21_FindingsOnlyFromChecks ==
    /\ result.status = "fail" => ~KeyUnusable
    /\ (Fresh /\ Len(Chain) > 0 /\ KeyUnusable) =>
          /\ result.status = "error"
          /\ result.atIndex = -1
          /\ \A i \in 1..Len(events) : events[i].type # "verify_fail"

\* C22: a storage failure on the append path is reported.  When chain.json
\* exists but cannot be parsed, ingestFrame fails and leaves the file as it
\* is; it never takes the unreadable chain for an empty one and never commits
\* an entry with index 0 over it.
C22_UnreadableChainNotOverwritten ==
    [][\A w \in Writers :
          (base[w].st = "partial" /\ pc[w] = "writing" /\ pc'[w] = "idle")
              => chainFile'.st # "json"]_vars

\* C23: at each entry verifyChain applies its checks in the order index,
\* linkage, artifact present, artifact hash, signature, entry hash, and the
\* reason reported is that of the first check in this order that fails for
\* the entry, also when several checks fail for it.
ArtifactPresent(i) ==
    \E p \in Paths : p = <<ImagesDir, Chain[i + 1].frameFile>> /\ files[p] # Absent
CheckRank(reason) ==
    CASE reason = "index mismatch" -> 1
      [] reason = "hash mismatch" -> 2
      [] reason = "frame file missing" -> 3
      [] reason = "frame hash mismatch" -> 4
      [] reason \in {"signature verification failed",
                     "signature verification error"} -> 5
      [] reason = "computed hash mismatch" -> 6
FailingChecks(i) ==
    (IF IndexHolds(i) THEN {} ELSE {1})
    \cup (IF LinkageHolds(i) THEN {} ELSE {2})
    \cup (IF ArtifactPresent(i) THEN {} ELSE {3})
    \cup (IF ArtifactPresent(i) /\ ~ArtifactHolds(i) THEN {4} ELSE {})
    \cup (IF SignatureHolds(i) THEN {} ELSE {5})
    \cup (IF EntryHashHolds(i) THEN {} ELSE {6})
C23_FirstCheckInOrder ==
    result.status = "fail" =>
        /\ FailingChecks(result.atIndex) # {}
        /\ CheckRank(result.reason) = Min(FailingChecks(result.atIndex))
C23_Witness ==
    /\ result.status = "fail"
    /\ result.reason = "index mismatch"
    /\ {1, 2} \subseteq FailingChecks(result.atIndex)

\* C24: for every entry committed by ingestFrame from a frame path p whose
\* file is not modified afterwards, verifyChain resolves the entry's artifact
\* reference to a file holding exactly the bytes hashed at ingest, for every
\* path ingestFrame accepts; two entries resolve to the same artifact file only
\* when they were ingested from the same bytes.
C24_ArtifactResolvesToIngestedBytes ==
    /\ \A i \in Positions : ArtifactHolds(i)
    /\ \A i, j \in Positions :
          Chain[i + 1].frameFile = Chain[j + 1].frameFile
              => Chain[i + 1].frameHash = Chain[j + 1].frameHash

\* C25: verifyChain performs no mutation.  Whatever it returns, chain.json,
\* every frame file and both key files are after the call what they were
\* before it.
C25_VerifyMutatesNothing ==
    [][result'.status # "none"
         => (chainFile' = chainFile /\ files' = files /\ keys' = keys)]_vars
C25_Witness ==
    /\ result.status = "fail"
    /\ result.reason = "frame hash mismatch"
    /\ prevResult.status = "none"
    /\ files[<<ImagesDir, Chain[result.atIndex + 1].frameFile>>] # Absent

\* C26: ingestFrame is all-or-nothing.  When it fails (frame file not found,
\* private key absent, signing error) the stored chain is unchanged; when it
\* returns an entry e, the last element of the stored chain equals e and the
\* chain length is e.index + 1.
C26_IngestAllOrNothing ==
    [][ret'.status # "none" =>
         IF ret'.status = "error"
         THEN chainFile' = chainFile
         ELSE /\ chainFile'.st = "json"
              /\ Len(chainFile'.chain) = ret'.entry[1].index + 1
              /\ chainFile'.chain[Len(chainFile'.chain)] = ret'.entry[1]]_vars
C26_Witness ==
    /\ ret.status = "error"
    /\ keys.priv = Undecodable
    /\ FileExists(files, ret.framePath)
    /\ Len(Chain) = 2

\* C27: a detected break is stable under further appends.  When verifyChain
\* has reported a failure at index k with reason r and frames are ingested
\* after that with nothing repaired, every ingest succeeds, the chain grows,
\* and verifyChain reports the failure at the same k with the same r.
AppendedAfterVerdict == ret.status = "ok" /\ prevResult.status # "none"
C27_BreakStableUnderAppend ==
    (AppendedAfterVerdict /\ prevResult.status = "fail") =>
        /\ result.status = "fail"
        /\ result.atIndex = prevResult.atIndex
        /\ result.reason = prevResult.reason
        /\ result.count = prevResult.count + 1
        /\ Len(Chain) = result.count
        /\ Chain[Len(Chain)] = ret.entry[1]
C27_Witness ==
    /\ AppendedAfterVerdict
    /\ prevResult.status = "fail"
    /\ prevResult.reason = "frame hash mismatch"
    /\ tampers # <<>>
    /\ Len(Chain) = 3
    /\ result.atIndex = 0

\* C28: verification is prefix-closed.  When verifyChain succeeds on a stored
\* chain of length N, it succeeds with count k on the chain cut back to its
\* first k entries, for every k in 0..N, frames and keys unchanged; with
\* chain.json deleted it succeeds with count 0.
Truncated(k) == EditedFile(SubSeq(Chain, 1, k))
C28_PrefixClosed ==
    (Fresh /\ result.status = "ok") =>
        /\ \A k \in 0..Len(Chain) :
              /\ VerifyChainOf(Truncated(k), files, keys).status = "ok"
              /\ VerifyChainOf(Truncated(k), files, keys).count = k
        /\ VerifyChainOf(NoChain, files, keys).status = "ok"
        /\ VerifyChainOf(NoChain, files, keys).count = 0
C28_Witness == Fresh /\ result.status = "ok" /\ result.count = 3

\* C29: capture ticks of the one server process whose capture phases overlap
\* never interleave inside ingestFrame.  After any interleaving the stored
\* chain has the indexes 0..N-1 without gap and correct linkage, no committed
\* entry is lost, and the chain_head events carry consecutive increasing
\* indexes.
C29_TicksKeepChain ==
    [][/\ \A i \in 0..(Len(chainFile'.chain) - 1) :
            /\ chainFile'.chain[i + 1].index = i
            /\ chainFile'.chain[i + 1].previousHash
                 = (IF i = 0 THEN ZeroHash ELSE chainFile'.chain[i].hash)
       /\ IsPrefix(chainFile.chain, chainFile'.chain)
       /\ chainFile'.chain # chainFile.chain =>
            /\ ret'.status = "ok"
            /\ chainFile'.chain = Append(chainFile.chain, ret'.entry[1])
            /\ events'[1].type = "chain_head"
            /\ events'[1].index = Len(chainFile.chain)]_vars
C29_Witness ==
    /\ ret.status = "ok"
    /\ Len(Chain) = 2
    /\ events[1].index = 1
    /\ \E t \in Ticks : loop.phase[t] = "capturing"

\* C30: a failed tick never stops the capture loop and never changes the
\* chain.  When the capture of a tick fails an error event is broadcast, no
\* entry is ingested, the chain and the interval are as before; and after
\* the failure a later tick attempts a capture again, unless SIGINT has
\* cleared the interval.
CaptureFailed == events = <<ErrorEvent("Capture failed")>>
C30_FailedTickKeepsLoopAndChain ==
    /\ [][\A t \in Ticks :
            (loop.phase[t] = "capturing" /\ loop'.phase[t] = "idle") =>
                /\ CaptureFailed'
                /\ chainFile' = chainFile
                /\ files' = files
                /\ ingested' = ingested
                /\ ret'.status # "ok"
                /\ loop'.running = loop.running]_vars
    /\ (/\ CaptureFailed
        /\ loop.running
        /\ \E t \in Ticks : loop.phase[t] = "idle"
        /\ \A t \in Ticks : loop.phase[t] # "capturing")
          ~> (~loop.running \/ \E t \in Ticks : loop.phase[t] = "capturing")
C30_Witness ==
    /\ CaptureFailed
    /\ loop.running
    /\ Len(Chain) >= 1
    /\ \E t \in Ticks : loop.phase[t] = "capturing"

\* C31: in every result verifyChain returns, count is the length of the
\* stored chain at the time of the call: on success the number of entries
\* verified, on failure the whole length and not the number of entries that
\* passed before the break, with 0 <= atIndex < count.
C31_CountIsChainLength ==
    result.status \in {"ok", "fail"} =>
        /\ result.count = Len(Chain)
        /\ result.status = "ok" => result.count = Cardinality(result.examined)
        /\ result.status = "fail" =>
              /\ 0 <= result.atIndex
              /\ result.atIndex < result.count
C31_Witness ==
    /\ result.status = "fail"
    /\ result.atIndex = 1
    /\ result.count = 3
    /\ Cardinality(result.examined) = 2

\* C32: the reconnection of the dashboard is bounded.  In every reachable
\* state reconnectAttempts <= maxReconnectAttempts; a connection error sets
\* a reconnect timer only while reconnectAttempts < maxReconnectAttempts,
\* and at most one; the counter is 0 whenever a connection has opened.
C32_ReconnectBounded ==
    [][/\ reconnectAttempts' <= maxReconnectAttempts
       /\ timers' > timers =>
            /\ reconnectAttempts < maxReconnectAttempts
            /\ timers' = timers + 1
       /\ eventSources'.open > eventSources.open => reconnectAttempts' = 0]_vars

\* C33: the chain log of the dashboard never shows two entries with the same
\* index.  A chain_head event whose index is displayed already is ignored,
\* whatever events arrive, repeated ones included: an element put into the
\* log carries an index that was not displayed.
Displayed(log) == WithoutLoading(log)
C33_NoDuplicateIndex ==
    [][/\ Cardinality({chainLog'[k].index : k \in 1..Len(chainLog')}) = Len(chainLog')
       /\ chainLog' # chainLog /\ chainLog' # Displayed(chainLog) =>
            ~HasIndex(chainLog, chainLog'[1].index)]_vars
C33_Witness ==
    /\ delivered.again >= 1
    /\ delivered.sent >= 2
    /\ Len(chainLog) = delivered.sent
    /\ \A k \in 1..Len(chainLog) : chainLog[k].class = "chain-entry"

UsbRunsInOrder(tried) ==
    /\ Len(tried) <= 2
    /\ Len(tried) >= 1 => tried[1].pipeline = "mjpeg"
    /\ Len(tried) = 2 => ~tried[1].ok /\ tried[2].pipeline = "raw"
C35_UsbPipelinesInOrder ==
    [][pipelines.camera = "USB" =>
        \A t \in Ticks :
          /\ UsbRunsInOrder(pipelines'.tried[t])
          /\ (loop.phase[t] = "capturing" /\ loop'.phase[t] = "captured") =>
                Succeeded(pipelines.tried[t])
          /\ (loop.phase[t] = "capturing" /\ Succeeded(pipelines.tried[t])) =>
                /\ pipelines'.tried[t] = pipelines.tried[t]
                /\ loop'.phase[t] # "idle"
          /\ (loop.phase[t] = "capturing" /\ loop'.phase[t] = "idle") =>
                /\ pipelines.tried[t] = <<Run("mjpeg", FALSE), Run("raw", FALSE)>>
                /\ events' = <<ErrorEvent("All capture pipelines failed")>>]_vars
C35_Witness ==
    /\ pipelines.camera = "USB"
    /\ \E t \in Ticks :
         /\ loop.phase[t] = "captured"
         /\ pipelines.tried[t] = <<Run("mjpeg", FALSE), Run("raw", TRUE)>>
    /\ events = <<ErrorEvent("All capture pipelines failed")>>

====
